---------------------------- MODULE Spec2Model ----------------------------
(***************************************************************************)
(* Model of material_database/parser/pyYamlParser.py: PyYamlParser with    *)
(* its constructor, load and dump, together with the behaviour of the two  *)
(* format engines (yaml, bibtexparser) on the inputs load and dump hand    *)
(* them.                                                                   *)
(*                                                                         *)
(* Text is a sequence of tokens.  A space and a newline are tokens of      *)
(* their own, so that the string operations of dump (concatenation, split, *)
(* join, rstrip) act on the text exactly as they do in Python; a run of    *)
(* other characters ("meta:", "1.5", "{") is one token.                    *)
(*                                                                         *)
(* A Python value is a node [k, t, v, items]: k is the key under which the *)
(* value sits in its parent mapping ("" for a list item), t its type       *)
(* ("s" scalar, "n" None, "m" dict, "l" list, "txt" a string holding       *)
(* citation text, "ref" a reference to a dict object on the heap).         *)
(***************************************************************************)
EXTENDS Integers, Sequences, FiniteSets, TLC

-----------------------------------------------------------------------------
(* Tokens *)

Tok(c, s) ==
    [c |-> c, s |-> s]

SP ==
    Tok("sp", "")

NL ==
    Tok("nl", "")

K(name) ==
    Tok("key", name)

S(atom) ==
    Tok("scal", atom)

LB ==
    Tok("lb", "")

RB ==
    Tok("rb", "")

LSQ ==
    Tok("lsq", "")

RSQ ==
    Tok("rsq", "")

CM ==
    Tok("cm", "")

DASH ==
    Tok("dash", "")

Q ==
    Tok("q", "")

BH(type) ==
    Tok("bh", type)

BI(id) ==
    Tok("bi", id)

BF(name) ==
    Tok("bf", name)

BV(val) ==
    Tok("bv", val)

BE ==
    Tok("be", "")

-----------------------------------------------------------------------------
(* Python str operations on token text *)

RECURSIVE Spaces(_)
Spaces(n) ==
    IF n = 0 THEN <<>> ELSE <<SP>> \o Spaces(n - 1)

RStrip(text, chars) ==
    LET keep == {i \in 1..Len(text) : text[i].c \notin chars}
        n == IF keep = {} THEN 0 ELSE CHOOSE i \in keep : \A j \in keep : j <= i
    IN SubSeq(text, 1, n)

RECURSIVE Split(_)
Split(text) ==
    LET nls == {i \in 1..Len(text) : text[i].c = "nl"}
    IN IF nls = {} THEN <<text>>
       ELSE LET i == CHOOSE x \in nls : \A y \in nls : x <= y
            IN <<SubSeq(text, 1, i - 1)>> \o Split(SubSeq(text, i + 1, Len(text)))

RECURSIVE Join(_, _)
Join(sep, parts) ==
    IF Len(parts) = 0 THEN <<>>
    ELSE IF Len(parts) = 1 THEN parts[1]
    ELSE parts[1] \o sep \o Join(sep, Tail(parts))

-----------------------------------------------------------------------------
(* Python values and dict operations (dicts keep insertion order) *)

Scal(k, atom) ==
    [k |-> k, t |-> "s", v |-> atom, items |-> <<>>]

None(k) ==
    [k |-> k, t |-> "n", v |-> "", items |-> <<>>]

Map(k, items) ==
    [k |-> k, t |-> "m", v |-> "", items |-> items]

List(k, items) ==
    [k |-> k, t |-> "l", v |-> "", items |-> items]

Str(k, text) ==
    [k |-> k, t |-> "txt", v |-> "", items |-> text]

Ref(k) ==
    [k |-> k, t |-> "ref", v |-> "", items |-> <<>>]

Keys(items) ==
    {items[i].k : i \in 1..Len(items)}

Has(items, key) ==
    key \in Keys(items)

Get(items, key) ==
    items[CHOOSE i \in 1..Len(items) : items[i].k = key]

DictSet(items, node) ==
    IF Has(items, node.k)
    THEN [i \in 1..Len(items) |-> IF items[i].k = node.k THEN node ELSE items[i]]
    ELSE Append(items, node)

DictDel(items, key) ==
    LET F[i \in 0..Len(items)] ==
            IF i = 0 THEN <<>>
            ELSE IF items[i].k = key THEN F[i - 1] ELSE Append(F[i - 1], items[i])
    IN F[Len(items)]

-----------------------------------------------------------------------------
(* yaml.dump(..., allow_unicode=True, sort_keys=False): the emitter.  style is  *)
(* "block" for default_flow_style=False (also the default of yaml.dump) and     *)
(* "auto" for default_flow_style=None, under which a collection holding only    *)
(* scalars is written inline.  An empty collection is written inline under      *)
(* every style.                                                                 *)

IsScalar(node) ==
    node.t \in {"s", "n", "txt"}

Leaf(node) ==
    \A i \in 1..Len(node.items) : IsScalar(node.items[i])

InFlow(node, style) ==
    Len(node.items) = 0 \/ (style = "auto" /\ Leaf(node))

ScalarText(node) ==
    IF node.t = "s" THEN <<S(node.v)>>
    ELSE IF node.t = "n" THEN <<S("null")>>
    ELSE <<Q>> \o node.items \o <<Q>>

FlowMapText(items) ==
    <<LB>> \o Join(<<CM, SP>>, [i \in 1..Len(items) |->
                       <<K(items[i].k), SP>> \o ScalarText(items[i])]) \o <<RB>>

FlowSeqText(items) ==
    <<LSQ>> \o Join(<<CM, SP>>, [i \in 1..Len(items) |-> ScalarText(items[i])]) \o <<RSQ>>

BlockSeqText(items, ind) ==
    Join(<<>>, [i \in 1..Len(items) |->
                   Spaces(ind) \o <<DASH, SP>> \o ScalarText(items[i]) \o <<NL>>])

RECURSIVE YamlItems(_, _, _)
YamlValue(node, ind, style) ==
    IF IsScalar(node) THEN <<SP>> \o ScalarText(node) \o <<NL>>
    ELSE IF node.t = "m"
         THEN IF InFlow(node, style) THEN <<SP>> \o FlowMapText(node.items) \o <<NL>>
              ELSE <<NL>> \o YamlItems(node.items, ind + 2, style)
         ELSE IF InFlow(node, style) THEN <<SP>> \o FlowSeqText(node.items) \o <<NL>>
              ELSE <<NL>> \o BlockSeqText(node.items, ind)

YamlItems(items, ind, style) ==
    Join(<<>>, [i \in 1..Len(items) |->
                   Spaces(ind) \o <<K(items[i].k)>> \o YamlValue(items[i], ind, style)])

YamlDump(items, style) ==
    IF InFlow(Map("", items), style) THEN FlowMapText(items) \o <<NL>>
    ELSE YamlItems(items, 0, style)

-----------------------------------------------------------------------------
(* yaml.load(file, Loader=yaml.FullLoader): the parser, on block mappings whose *)
(* values are plain or quoted scalars, nested block mappings, block sequences   *)
(* of scalars and inline collections of scalars.  The result is                 *)
(* [ok |-> FALSE] for text the scanner or parser rejects.                       *)

Bad ==
    [ok |-> FALSE, items |-> <<>>]

Good(items) ==
    [ok |-> TRUE, items |-> items]

Indent(line) ==
    LET nonsp == {i \in 1..Len(line) : line[i].c # "sp"}
    IN IF nonsp = {} THEN Len(line)
       ELSE (CHOOSE i \in nonsp : \A j \in nonsp : i <= j) - 1

LineRec(line) ==
    [ind |-> Indent(line),
     body |-> RStrip(SubSeq(line, Indent(line) + 1, Len(line)), {"sp"})]

RECURSIVE NonBlank(_)
NonBlank(lines) ==
    IF Len(lines) = 0 THEN <<>>
    ELSE IF LineRec(lines[1]).body = <<>> THEN NonBlank(Tail(lines))
    ELSE <<LineRec(lines[1])>> \o NonBlank(Tail(lines))

IsKeyLine(l) ==
    l.body[1].c = "key"

IsDashLine(l) ==
    l.body[1].c = "dash"

RECURSIVE FlowMapItems(_)
FlowMapItems(toks) ==
    IF Len(toks) = 0 THEN Good(<<>>)
    ELSE IF Len(toks) >= 3 /\ toks[1].c = "key" /\ toks[2].c = "sp" /\ toks[3].c = "scal"
    THEN IF Len(toks) = 3 THEN Good(<<Scal(toks[1].s, toks[3].s)>>)
         ELSE IF Len(toks) >= 8 /\ toks[4].c = "cm" /\ toks[5].c = "sp"
         THEN LET rest == FlowMapItems(SubSeq(toks, 6, Len(toks)))
              IN IF rest.ok
                 THEN Good(<<Scal(toks[1].s, toks[3].s)>> \o rest.items)
                 ELSE Bad
         ELSE Bad
    ELSE Bad

RECURSIVE FlowSeqItems(_)
FlowSeqItems(toks) ==
    IF Len(toks) = 0 THEN Good(<<>>)
    ELSE IF toks[1].c = "scal"
    THEN IF Len(toks) = 1 THEN Good(<<Scal("", toks[1].s)>>)
         ELSE IF Len(toks) >= 4 /\ toks[2].c = "cm" /\ toks[3].c = "sp"
         THEN LET rest == FlowSeqItems(SubSeq(toks, 4, Len(toks)))
              IN IF rest.ok THEN Good(<<Scal("", toks[1].s)>> \o rest.items) ELSE Bad
         ELSE Bad
    ELSE Bad

(* The value written on a key's own line, after "key: ". *)
InlineValue(key, toks) ==
    LET n == Len(toks)
        inner == SubSeq(toks, 2, n - 1)
    IN IF n = 1 /\ toks[1].c = "scal"
       THEN Good(<<IF toks[1].s = "null" THEN None(key) ELSE Scal(key, toks[1].s)>>)
       ELSE IF n >= 2 /\ toks[1].c = "q" /\ toks[n].c = "q"
                      /\ \A i \in 1..Len(inner) : inner[i].c \notin {"q", "nl"}
       THEN Good(<<Str(key, inner)>>)
       ELSE IF n >= 2 /\ toks[1].c = "lb" /\ toks[n].c = "rb"
       THEN LET r == FlowMapItems(inner)
            IN IF r.ok THEN Good(<<Map(key, r.items)>>) ELSE Bad
       ELSE IF n >= 2 /\ toks[1].c = "lsq" /\ toks[n].c = "rsq"
       THEN LET r == FlowSeqItems(inner)
            IN IF r.ok THEN Good(<<List(key, r.items)>>) ELSE Bad
       ELSE Bad

(* A block sequence: every line "- scalar", all with one indentation. *)
ParseSeq(ls) ==
    IF \A i \in 1..Len(ls) :
           /\ ls[i].ind = ls[1].ind
           /\ Len(ls[i].body) = 3
           /\ ls[i].body[1].c = "dash" /\ ls[i].body[2].c = "sp" /\ ls[i].body[3].c = "scal"
    THEN Good([i \in 1..Len(ls) |-> Scal("", ls[i].body[3].s)])
    ELSE Bad

(* The lines after line i that belong to the value of the key on line i: the    *)
(* deeper ones, and the "- item" lines at the key's own indentation.            *)
ChildEnd(ls, i, ind0) ==
    LET stops == {j \in (i + 1)..Len(ls) :
                      ~(ls[j].ind > ind0 \/ (ls[j].ind = ind0 /\ IsDashLine(ls[j])))}
    IN IF stops = {} THEN Len(ls) + 1
       ELSE CHOOSE j \in stops : \A x \in stops : j <= x

RECURSIVE ParseBlock(_)
RECURSIVE ParseEntries(_, _, _, _)
ParseEntries(ls, i, ind0, acc) ==
    IF i > Len(ls) THEN Good(acc)
    ELSE IF ls[i].ind # ind0 \/ ~IsKeyLine(ls[i]) THEN Bad
    ELSE LET key == ls[i].body[1].s
             j == ChildEnd(ls, i, ind0)
             kids == SubSeq(ls, i + 1, j - 1)
             body == ls[i].body
             val == IF Len(body) = 1
                    THEN IF Len(kids) = 0 THEN Good(<<None(key)>>)
                         ELSE IF IsDashLine(kids[1])
                         THEN LET r == ParseSeq(kids)
                              IN IF r.ok THEN Good(<<List(key, r.items)>>) ELSE Bad
                         ELSE LET r == ParseBlock(kids)
                              IN IF r.ok THEN Good(<<Map(key, r.items)>>) ELSE Bad
                    ELSE IF Len(body) >= 3 /\ body[2].c = "sp" /\ Len(kids) = 0
                    THEN InlineValue(key, SubSeq(body, 3, Len(body)))
                    ELSE Bad
         IN IF val.ok THEN ParseEntries(ls, j, ind0, DictSet(acc, val.items[1])) ELSE Bad

ParseBlock(ls) ==
    ParseEntries(ls, 1, ls[1].ind, <<>>)

YamlLoad(text) ==
    LET ls == NonBlank(Split(text))
    IN IF Len(ls) = 0 THEN Bad ELSE ParseBlock(ls)

-----------------------------------------------------------------------------
(* bibtexparser.loads(text).entries: one dict per entry, holding the entry's    *)
(* fields and, under the keys ENTRYTYPE and ID, its type and its identifier.    *)
(* Entries are kept in text order; two entries with one identifier are both     *)
(* kept.                                                                        *)

BibEntry(ent) ==
    LET F[i \in 0..Len(ent)] ==
            IF i = 0 THEN <<>>
            ELSE IF ent[i].c = "bf" THEN DictSet(F[i - 1], Scal(ent[i].s, ent[i + 1].s))
            ELSE F[i - 1]
        id == ent[CHOOSE i \in 1..Len(ent) : ent[i].c = "bi"].s
    IN Map("", F[Len(ent)] \o <<Scal("ENTRYTYPE", ent[1].s), Scal("ID", id)>>)

RECURSIVE BibLoads(_)
BibLoads(toks) ==
    LET hs == {i \in 1..Len(toks) : toks[i].c = "bh"}
    IN IF hs = {} THEN <<>>
       ELSE LET p == CHOOSE i \in hs : \A j \in hs : i <= j
                es == {i \in (p + 1)..Len(toks) : toks[i].c = "be"}
                e == CHOOSE i \in es : \A j \in es : i <= j
            IN <<BibEntry(SubSeq(toks, p, e))>> \o BibLoads(SubSeq(toks, e + 1, Len(toks)))

(* Rekey with the first entry of an identifier kept instead of the last. *)
RekeyFirstWins(bib_list) ==
    LET F[i \in 0..Len(bib_list)] ==
            IF i = 0 THEN <<>>
            ELSE LET id == Get(bib_list[i].items, "ID").v
                 IN IF Has(F[i - 1], id) THEN F[i - 1]
                    ELSE Append(F[i - 1], Map(id, DictDel(bib_list[i].items, "ID")))
    IN F[Len(bib_list)]

(* Rekey without the deletion of line 75. *)
RekeyKeepsId(bib_list) ==
    LET F[i \in 0..Len(bib_list)] ==
            IF i = 0 THEN <<>>
            ELSE LET id == Get(bib_list[i].items, "ID").v
                 IN DictSet(F[i - 1], Map(id, bib_list[i].items))
    IN F[Len(bib_list)]

(* load, lines 72-75: the loop that keys each entry by its identifier and then  *)
(* deletes the identifier from the entry.                                       *)
Rekey(bib_list) ==
    LET F[i \in 0..Len(bib_list)] ==
            IF i = 0 THEN <<>>
            ELSE LET id == Get(bib_list[i].items, "ID").v
                 IN DictSet(F[i - 1], Map(id, DictDel(bib_list[i].items, "ID")))
    IN F[Len(bib_list)]

-----------------------------------------------------------------------------
(* State *)

VARIABLES
    parser,   \* the PyYamlParser object: whether built, and its base_path attribute
    fs,       \* the files <base>/<name>.yml
    heap,     \* the dict objects that records share by reference (their meta dicts)
    recs,     \* the records the caller holds, in the order it got them
    res       \* the last call: operation, outcome, argument, returned text

vars ==
    <<parser, fs, heap, recs, res>>

MaxRecs ==
    2

MaxWrites ==
    1

Names ==
    {"mat", "out"}

BasePaths ==
    {"db", "nodir"}

(* os.path.exists(base_path) *)
PathExists(base_path) ==
    base_path = "db"

NoText ==
    <<>>

Result(op, status, name, slot, text, before) ==
    [op |-> op, status |-> status, name |-> name, slot |-> slot,
     text |-> text, before |-> before]

(* The value of a record: its top-level dict with the shared meta dict in place. *)
Deep(top, meta) ==
    [i \in 1..Len(top) |-> IF top[i].t = "ref" THEN Map(top[i].k, meta) ELSE top[i]]

MetaOf(hp, r) ==
    IF r.maddr = 0 THEN <<>> ELSE hp[r.maddr]

DeepRec(hp, r) ==
    Deep(r.top, MetaOf(hp, r))

-----------------------------------------------------------------------------
(* The files the database directory holds at the start: block-style documents   *)
(* with the citation text as one quoted string under meta.references.           *)

E1 ==
    <<BH("article"), BI("smith2020"), SP, BF("title"), BV("X"), BE>>

E2 ==
    <<BH("book"), BI("jones1999"), SP, BF("title"), BV("Y"), CM, SP,
      BF("year"), BV("1999"), BE>>

E1again ==
    <<BH("book"), BI("smith2020"), SP, BF("year"), BV("2021"), BE>>

MetaFields ==
    {<<>>, <<Scal("name", "Fe")>>}

IdFields ==
    {<<>>, <<Scal("ID", "mat")>>}

D1 ==
    <<Map("n", <<Map("smith2020", <<Scal("value", "1.5")>>)>>)>>

D2 ==
    <<Map("n", <<Map("smith2020", <<Scal("value", "1.5")>>),
                Map("jones1999", <<Scal("value", "2"), Scal("unit", "nm")>>)>>)>>

D3 ==
    <<Map("n", <<Map("smith2020", <<Map("value", <<Scal("A", "1"), Scal("B", "2")>>),
                                   Scal("unit", "nm")>>)>>),
      Map("kappa", <<Map("jones1999", <<Scal("value", "3"), List("tags", <<>>)>>)>>)>>

D4 ==
    <<Map("n", <<Map("smith2020", <<Scal("value", "1.5"),
                                   List("range", <<Scal("", "1"), Scal("", "2")>>),
                                   Map("fit", <<Scal("order", "2")>>)>>)>>),
      Map("kappa", <<Map("smith2020", <<Map("value", <<Map("poly", <<Scal("A", "1")>>)>>)>>),
                    Map("jones1999", <<Map("value", <<>>)>>)>>)>>

(* The citation text and the data block of a file, chosen together. *)
Bodies ==
    {<<NoText, <<>>>>,
     <<E1, D1>>,
     <<E1 \o <<SP>> \o E2, D2>>,
     <<E1 \o <<SP>> \o E1again, D3>>,
     <<E2, D4>>}

FileContents ==
    {id \o <<Map("meta", mf \o <<Str("references", b[1])>>), Map("data", b[2])>> :
        id \in IdFields, mf \in MetaFields, b \in Bodies}

File(text, dumped, ver, content) ==
    [exists |-> TRUE, text |-> text, dumped |-> dumped, ver |-> ver, content |-> content]

NoFile ==
    [exists |-> FALSE, text |-> NoText, dumped |-> FALSE, ver |-> 0, content |-> <<>>]

Init ==
    /\ parser = [made |-> FALSE, has_base_path |-> FALSE, base_path |-> "", arg |-> ""]
    /\ \E c \in FileContents :
           fs = [n \in Names |-> IF n = "mat" THEN File(YamlDump(c, "block"), FALSE, 0, c)
                                 ELSE NoFile]
    /\ heap = <<>>
    /\ recs = <<>>
    /\ res = Result("none", "ok", "", 0, NoText, <<>>)

-----------------------------------------------------------------------------
(* __init__, lines 41-48 *)

(* __init__ setting base_path whether or not the path exists. *)
BasePathAttrAlways(base_path) ==
    [has_base_path |-> TRUE, base_path |-> base_path]

BasePathAttr(base_path) ==
    IF PathExists(base_path)
    THEN [has_base_path |-> TRUE, base_path |-> base_path]
    ELSE [has_base_path |-> FALSE, base_path |-> ""]

Construct(base_path) ==
    /\ ~parser.made
    /\ parser' = [made |-> TRUE,
                  has_base_path |-> BasePathAttr(base_path).has_base_path,
                  base_path |-> BasePathAttr(base_path).base_path,
                  arg |-> base_path]
    /\ res' = Result("init", "ok", base_path, 0, NoText, <<>>)
    /\ UNCHANGED <<fs, heap, recs>>

-----------------------------------------------------------------------------
(* load, lines 50-81 *)

Fail(status) ==
    [status |-> status, top |-> <<>>, meta |-> <<>>]

LoadOutcome(p, files, material) ==
    IF ~p.has_base_path THEN Fail("AttributeError")
    ELSE IF ~PathExists(p.base_path) \/ ~files[material].exists
    THEN Fail("FileNotFoundError")
    ELSE LET y == YamlLoad(files[material].text)
         IN IF ~y.ok THEN Fail("YAMLError")
            ELSE LET material_data == DictSet(y.items, Scal("ID", material))
                 IN IF ~Has(material_data, "meta") THEN Fail("KeyError")
                    ELSE LET meta == Get(material_data, "meta")
                         IN IF meta.t # "m" THEN Fail("TypeError")
                            ELSE IF ~Has(meta.items, "references") THEN Fail("KeyError")
                            ELSE LET bibtex == Get(meta.items, "references")
                                 IN IF bibtex.t # "txt" THEN Fail("TypeError")
                                    ELSE LET bib_list == BibLoads(bibtex.items)
                                             bib_dict == Rekey(bib_list)
                                         IN [status |-> "ok",
                                             top |-> DictSet(material_data, Ref("meta")),
                                             meta |-> DictSet(meta.items,
                                                              Map("references", bib_dict))]

(* load handing out the meta dict of an earlier load of the same file. *)
NewObjectCached(hp, rs, material, ver, meta) ==
    LET old == {i \in 1..Len(rs) : rs[i].src = "load" /\ rs[i].name = material
                                       /\ rs[i].ver = ver}
    IN IF old = {} THEN [addr |-> Len(hp) + 1, heap |-> Append(hp, meta)]
       ELSE [addr |-> rs[CHOOSE i \in old : TRUE].maddr, heap |-> hp]

(* Each load builds its dicts anew: the meta dict is a new object. *)
NewObject(hp, rs, material, ver, meta) ==
    [addr |-> Len(hp) + 1, heap |-> Append(hp, meta)]

Load(material) ==
    /\ parser.made
    /\ Len(recs) < MaxRecs
    /\ LET o == LoadOutcome(parser, fs, material)
           obj == NewObject(heap, recs, material, fs[material].ver, o.meta)
       IN IF o.status = "ok"
          THEN /\ heap' = obj.heap
               /\ recs' = Append(recs, [src |-> "load", name |-> material,
                                        ver |-> fs[material].ver, top |-> o.top,
                                        maddr |-> obj.addr, orig |-> Deep(o.top, o.meta)])
               /\ res' = Result("load", "ok", material, Len(recs) + 1, NoText, <<>>)
          ELSE /\ res' = Result("load", o.status, material, 0, NoText, <<>>)
               /\ UNCHANGED <<heap, recs>>
    /\ UNCHANGED <<parser, fs>>

-----------------------------------------------------------------------------
(* dump, lines 83-160 *)

(* d[key] where the key is known to be present, an empty dict otherwise. *)
Lookup(items, key) ==
    IF Has(items, key) THEN Get(items, key) ELSE Map(key, <<>>)

ValueRecords(data) ==
    UNION {{data[i].items[j] : j \in 1..Len(data[i].items)} : i \in 1..Len(data)}

(* dump dropping data from meta_dict only when it is there. *)
KeyErrorLineNoData(top, meta) ==
    IF ~Has(top, "meta") \/ ~Has(meta, "references") THEN 92
    ELSE IF \E r \in ValueRecords(Lookup(top, "data").items) : ~Has(r.items, "value") THEN 136
    ELSE 0

(* The line of dump at which a key access fails, 0 when none does: line 92      *)
(* reads meta and meta.references, line 97 deletes data, line 136 reads value.  *)
KeyErrorLine(top, meta) ==
    IF ~Has(top, "meta") \/ ~Has(meta, "references") THEN 92
    ELSE IF ~Has(top, "data") THEN 97
    ELSE IF \E r \in ValueRecords(Get(top, "data").items) : ~Has(r.items, "value") THEN 136
    ELSE 0

(* bibtexparser.dumps(bib_obj), line 109, where bib_obj.entries is the dict of  *)
(* line 92 and not the list of entries the writer expects.  Iterating the dict  *)
(* yields the identifiers, which are strings and have no fields; the writer     *)
(* either leaves the entries section out (it skips a section whose writing      *)
(* raises AttributeError) or, depending on its version and sorting, fails.      *)
(* No entry is written in either case.                                          *)
BibDumps(bib_dict) ==
    {[ok |-> TRUE, text |-> NoText]}
        \cup (IF Len(bib_dict) = 0 THEN {} ELSE {[ok |-> FALSE, text |-> NoText]})

(* dump taking the default_flow_style=None branch for every value. *)
ValueStyleAlwaysAuto(value) ==
    "auto"

(* lines 138-147: the flow style chosen from the type of the value field *)
ValueStyle(value) ==
    IF value.t = "m" THEN "auto" ELSE "block"

(* lines 136-152: the block of one value record, six spaces before each line *)
TmpYaml(rec) ==
    YamlDump(rec.items, ValueStyle(Lookup(rec.items, "value")))

YamlPar(rec) ==
    LET split_tmp == Split(TmpYaml(rec))
    IN Join(<<NL>> \o Spaces(6), [split_tmp EXCEPT ![1] = Spaces(6) \o @])

(* lines 133-153: the loop over the reference names of one parameter *)
RECURSIVE RefLoop(_, _, _)
RefLoop(par, j, yaml_data) ==
    IF j > Len(par) THEN yaml_data
    ELSE RefLoop(par, j + 1,
                 yaml_data \o Spaces(4) \o <<K(par[j].k), NL>> \o YamlPar(par[j]))

(* lines 130-155: the loop over the parameter names *)
RECURSIVE ParLoop(_, _, _)
ParLoop(data, i, yaml_data) ==
    IF i > Len(data) THEN yaml_data
    ELSE ParLoop(data, i + 1,
                 RStrip(RefLoop(data[i].items, 1,
                                yaml_data \o Spaces(2) \o <<K(data[i].k), NL>>),
                        {"sp"}))

YamlData(data_dict) ==
    ParLoop(Lookup(data_dict, "data").items, 1, <<K("data"), NL>>)

(* lines 102-104 *)
YamlMeta(meta_dict) ==
    RStrip(YamlDump(meta_dict, "block"), {"sp"})

(* lines 113-115 *)
YamlBib(bib_str) ==
    LET split_Bib == Split(bib_str)
    IN RStrip(<<SP, SP, K("references"), SP, NL>>
                 \o Join(<<NL>> \o Spaces(5), [split_Bib EXCEPT ![1] = Spaces(4) \o @]),
              {"nl", "sp"})

(* line 158 *)
YamlFile(top, meta, bib_str) ==
    YamlMeta(Deep(DictDel(top, "data"), meta)) \o YamlBib(bib_str) \o <<NL>>
        \o YamlData(DictDel(top, "meta"))

(* One call of dump on the record r: the outcome, the returned text and the     *)
(* meta dict as the call leaves it.  Line 96 deletes references from the meta   *)
(* dict that meta_dict shares with the caller's record.                         *)
DumpOutcome(hp, r, bib) ==
    LET meta == MetaOf(hp, r)
        line == KeyErrorLine(r.top, meta)
        after == DictDel(meta, "references")
    IN IF line = 92 THEN [status |-> "KeyError", text |-> NoText, meta |-> meta]
       ELSE IF line = 97 THEN [status |-> "KeyError", text |-> NoText, meta |-> after]
       ELSE IF ~bib.ok THEN [status |-> "TypeError", text |-> NoText, meta |-> after]
       ELSE IF line = 136 THEN [status |-> "KeyError", text |-> NoText, meta |-> after]
       ELSE [status |-> "ok", text |-> YamlFile(r.top, after, bib.text), meta |-> after]

Dump(i) ==
    /\ parser.made
    /\ i \in 1..Len(recs)
    /\ \E bib \in BibDumps(Lookup(MetaOf(heap, recs[i]), "references").items) :
           LET o == DumpOutcome(heap, recs[i], bib)
           IN /\ heap' = IF recs[i].maddr = 0 THEN heap
                         ELSE [heap EXCEPT ![recs[i].maddr] = o.meta]
              /\ res' = Result("dump", o.status, recs[i].name, i, o.text,
                               DeepRec(heap, recs[i]))
    /\ UNCHANGED <<parser, fs, recs>>

-----------------------------------------------------------------------------
(* The caller *)

(* Mappings a caller builds by hand and passes to dump: each lacks one of the   *)
(* keys dump reads.                                                             *)
HandMade ==
    {[top |-> <<Scal("ID", "x"), Map("data", D1)>>, meta |-> <<>>, maddr |-> 0],
     [top |-> <<Scal("ID", "x"), Ref("meta")>>,
      meta |-> <<Scal("name", "Fe"), Map("references", <<>>)>>, maddr |-> 1],
     [top |-> <<Scal("ID", "x"), Ref("meta"), Map("data", D1)>>,
      meta |-> <<Scal("name", "Fe")>>, maddr |-> 1],
     [top |-> <<Scal("ID", "x"), Ref("meta"),
                Map("data", <<Map("n", <<Map("smith2020", <<Scal("unit", "nm")>>)>>)>>)>>,
      meta |-> <<Scal("name", "Fe"), Map("references", <<>>)>>, maddr |-> 1]}

Make(h) ==
    /\ parser.made
    /\ Len(recs) < MaxRecs
    /\ heap' = IF h.maddr = 0 THEN heap ELSE Append(heap, h.meta)
    /\ recs' = Append(recs, [src |-> "caller", name |-> "", ver |-> 0, top |-> h.top,
                             maddr |-> IF h.maddr = 0 THEN 0 ELSE Len(heap) + 1,
                             orig |-> Deep(h.top, h.meta)])
    /\ res' = Result("make", "ok", "", Len(recs) + 1, NoText, <<>>)
    /\ UNCHANGED <<parser, fs>>

(* The caller writes the text the last dump returned to <base>/<name>.yml. *)
Write(name) ==
    /\ res.op = "dump" /\ res.status = "ok"
    /\ parser.has_base_path
    /\ fs[name].ver < MaxWrites
    /\ fs' = [fs EXCEPT ![name] = File(res.text, TRUE, @.ver + 1, <<>>)]
    /\ res' = Result("write", "ok", name, 0, NoText, <<>>)
    /\ UNCHANGED <<parser, heap, recs>>

Next ==
    \/ \E base_path \in BasePaths : Construct(base_path)
    \/ \E material \in Names : Load(material)
    \/ \E i \in 1..MaxRecs : Dump(i)
    \/ \E h \in HandMade : Make(h)
    \/ Write("out")

Spec ==
    Init /\ [][Next]_vars

-----------------------------------------------------------------------------
(* Reading a returned text back as lines, for the properties below *)

(* The lines of a text that ends with a newline: the pieces of split('\n')      *)
(* without the empty piece after the last newline.                              *)
TextLines(text) ==
    LET pieces == Split(text)
        n == IF pieces[Len(pieces)] = <<>> THEN Len(pieces) - 1 ELSE Len(pieces)
    IN [i \in 1..n |-> LineRec(pieces[i])]

IsHeader(l, key) ==
    l.body = <<K(key)>>

(* The index of the first line at indentation 0 that starts with the key, 0 if  *)
(* there is none.                                                               *)
TopLine(ls, key) ==
    LET hits == {i \in 1..Len(ls) : ls[i].ind = 0 /\ ls[i].body # <<>>
                                        /\ ls[i].body[1] = K(key)}
    IN IF hits = {} THEN 0 ELSE CHOOSE i \in hits : \A j \in hits : i <= j

DumpReturned ==
    res.op = "dump" /\ res.status = "ok"

DumpedRecord ==
    recs[res.slot]

DataOf(rec) ==
    Get(rec, "data").items

ParNames(data) ==
    Keys(data)

RefNames(data) ==
    UNION {Keys(data[i].items) : i \in 1..Len(data)}

LoadReturned ==
    res.op = "load" /\ res.status = "ok"

-----------------------------------------------------------------------------
(* C3: in the text dump returns, after the "data:" line, every parameter       *)
(* header line has exactly 2 leading spaces, every reference header line has   *)
(* exactly 4, and every other line has at least 6, for any number of           *)
(* parameters and of reference keys under a parameter.                         *)
C3_DataIndentation ==
    DumpReturned =>
        LET ls == TextLines(res.text)
            data == DataOf(res.before)
            d == TopLine(ls, "data")
        IN \A i \in (d + 1)..Len(ls) :
               IF \E p \in ParNames(data) : IsHeader(ls[i], p) THEN ls[i].ind = 2
               ELSE IF \E r \in RefNames(data) : IsHeader(ls[i], r) THEN ls[i].ind = 4
               ELSE ls[i].ind >= 6

-----------------------------------------------------------------------------
(* C10: for every record load returned, the text dump returns has the "ID:"    *)
(* line before the "meta:" line, the "meta:" line opens a block (it is not an  *)
(* inline empty mapping), the "  references:" header follows inside that block *)
(* with no top-level line between the two, and "data:" comes after it.         *)
C10_Layout ==
    (DumpReturned /\ DumpedRecord.src = "load") =>
        LET ls == TextLines(res.text)
            id == TopLine(ls, "ID")
            meta == TopLine(ls, "meta")
            data == TopLine(ls, "data")
            refs == {i \in 1..Len(ls) : ls[i].ind = 2 /\ IsHeader(ls[i], "references")}
        IN /\ id > 0 /\ meta > 0 /\ data > 0
           /\ id < meta
           /\ IsHeader(ls[meta], "meta")
           /\ \E r \in refs :
                  /\ meta < r /\ r < data
                  /\ \A j \in (meta + 1)..r : ls[j].ind > 0

-----------------------------------------------------------------------------
(* C1: a file whose content is a text dump returned loads, and dumping the     *)
(* loaded record returns that text again, token for token.                     *)
C1_RoundTrip ==
    /\ (res.op = "load" /\ fs[res.name].dumped) => res.status = "ok"
    /\ \A i \in 1..Len(recs) :
           (DumpReturned /\ res.slot = i /\ recs[i].src = "load"
                /\ fs[recs[i].name].dumped /\ fs[recs[i].name].ver = recs[i].ver)
               => res.text = fs[recs[i].name].text

-----------------------------------------------------------------------------
(* C4: dump leaves the record it is given as it was: when dump returns, the    *)
(* caller's record equals its value before the call (meta still holds          *)
(* references).                                                                *)
C4_DumpKeepsRecord ==
    DumpReturned => DeepRec(heap, DumpedRecord) = res.before

-----------------------------------------------------------------------------
(* C7: dump of a mapping that lacks meta, data or meta.references fails with   *)
(* KeyError and returns no text; a dump that fails returns nothing, and one    *)
(* that returns has written the meta block, the references header and the data *)
(* header.                                                                     *)
Lacks(rec) ==
    \/ ~Has(rec, "meta")
    \/ ~Has(rec, "data")
    \/ ~Has(Get(rec, "meta").items, "references")

C7_ShapeErrors ==
    res.op = "dump" =>
        /\ Lacks(res.before) => res.status = "KeyError"
        /\ res.status # "ok" => res.text = NoText
        /\ res.status = "ok" =>
               LET ls == TextLines(res.text)
               IN /\ TopLine(ls, "meta") > 0
                  /\ TopLine(ls, "data") > TopLine(ls, "meta")
                  /\ \E i \in 1..Len(ls) : IsHeader(ls[i], "references")
                  /\ res.text[Len(res.text)] = NL

C7_Witness ==
    /\ res.op = "dump"
    /\ Has(res.before, "meta") /\ Has(Get(res.before, "meta").items, "references")
    /\ ~Has(res.before, "data")
    /\ res.status = "KeyError"

-----------------------------------------------------------------------------
(* C9: two loads of one unchanged file return equal records that share no      *)
(* dict: when the later load returns, its record equals the value the earlier  *)
(* one had when it was returned, whatever dump did to the earlier one since.   *)
SameFile(i, j) ==
    /\ recs[i].src = "load" /\ recs[j].src = "load"
    /\ recs[i].name = recs[j].name /\ recs[i].ver = recs[j].ver

C9_LoadFresh ==
    \A i \in 1..Len(recs) : \A j \in (i + 1)..Len(recs) :
        SameFile(i, j) =>
            /\ recs[i].maddr # recs[j].maddr
            /\ (LoadReturned /\ res.slot = j) => DeepRec(heap, recs[j]) = recs[i].orig

C9_Witness ==
    /\ Len(recs) = 2 /\ SameFile(1, 2)
    /\ LoadReturned /\ res.slot = 2
    /\ DeepRec(heap, recs[1]) # recs[1].orig

-----------------------------------------------------------------------------
(* The citation text of an authored file, read token by token *)

RefText(content) ==
    Get(Get(content, "meta").items, "references").items

IdPositions(t) ==
    {i \in 1..Len(t) : t[i].c = "bi"}

Ids(t) ==
    {t[i].s : i \in IdPositions(t)}

DistinctIds(t) ==
    Cardinality(Ids(t)) = Cardinality(IdPositions(t))

LastWith(t, id) ==
    CHOOSE i \in IdPositions(t) :
        t[i].s = id /\ \A j \in IdPositions(t) : t[j].s = id => j <= i

EntryEnd(t, p) ==
    CHOOSE e \in p..Len(t) : t[e].c = "be" /\ \A x \in p..e : t[x].c = "be" => x = e

FieldsAt(t, p) ==
    {<<t[i].s, t[i + 1].s>> : i \in {x \in p..EntryEnd(t, p) : t[x].c = "bf"}}

TypeAt(t, p) ==
    t[p - 1].s

FieldSet(entry) ==
    {<<entry.items[i].k, entry.items[i].v>> :
        i \in {x \in 1..Len(entry.items) : entry.items[x].k # "ENTRYTYPE"}}

LoadedAuthored ==
    LoadReturned /\ ~fs[res.name].dumped

LoadedRefs ==
    Get(MetaOf(heap, recs[res.slot]), "references").items

-----------------------------------------------------------------------------
(* C2: load of a file whose citation text holds N entries with distinct        *)
(* identifiers returns meta.references with exactly N keys, the identifiers;   *)
(* no value holds the identifier field; when identifiers repeat, load still    *)
(* returns and each key holds the fields of the last entry with that           *)
(* identifier.                                                                 *)
C2_Rekeying ==
    /\ (res.op = "load" /\ parser.has_base_path /\ fs[res.name].exists
            /\ ~fs[res.name].dumped) => res.status = "ok"
    /\ LoadedAuthored =>
           LET t == RefText(fs[res.name].content)
               refs == LoadedRefs
           IN /\ DistinctIds(t) => Len(refs) = Cardinality(IdPositions(t))
              /\ Keys(refs) = Ids(t)
              /\ \A i \in 1..Len(refs) :
                     /\ ~Has(refs[i].items, "ID")
                     /\ FieldSet(refs[i]) = FieldsAt(t, LastWith(t, refs[i].k))

C2_Witness ==
    /\ LoadedAuthored
    /\ DistinctIds(RefText(fs[res.name].content))
    /\ Len(LoadedRefs) = 2

-----------------------------------------------------------------------------
(* C6, as stated: load returns each citation as exactly its own fields (no     *)
(* identifier, no added key); the scenario file gives meta.references equal to *)
(* {smith2020: {title: X}}.                                                    *)
Scenario ==
    <<Map("meta", <<Str("references", E1)>>), Map("data", D1)>>

C6_CitationFieldsOnly ==
    LoadedAuthored =>
        LET t == RefText(fs[res.name].content)
            refs == LoadedRefs
        IN /\ \A i \in 1..Len(refs) :
                  Keys(refs[i].items) = {f[1] : f \in FieldsAt(t, LastWith(t, refs[i].k))}
           /\ fs[res.name].content = Scenario =>
                  refs = <<Map("smith2020", <<Scal("title", "X")>>)>>

(* C6, amended: load passes the data block through unchanged and returns each  *)
(* citation as its own fields plus its entry type under the key ENTRYTYPE,     *)
(* without the identifier; the scenario file gives meta.references equal to    *)
(* {smith2020: {title: X, ENTRYTYPE: article}} and data.n.smith2020.value      *)
(* equal to 1.5.                                                               *)
C6_CitationFieldsAndType ==
    LoadedAuthored =>
        LET t == RefText(fs[res.name].content)
            refs == LoadedRefs
            rec == DeepRec(heap, recs[res.slot])
        IN /\ DataOf(rec) = DataOf(fs[res.name].content)
           /\ \A i \in 1..Len(refs) :
                  LET p == LastWith(t, refs[i].k)
                  IN /\ Keys(refs[i].items) = {f[1] : f \in FieldsAt(t, p)} \cup {"ENTRYTYPE"}
                     /\ Get(refs[i].items, "ENTRYTYPE").v = TypeAt(t, p)
                     /\ FieldSet(refs[i]) = FieldsAt(t, p)
           /\ fs[res.name].content = Scenario =>
                  /\ Len(refs) = 1 /\ refs[1].k = "smith2020"
                  /\ {<<refs[1].items[x].k, refs[1].items[x].v>> : x \in 1..Len(refs[1].items)}
                         = {<<"title", "X">>, <<"ENTRYTYPE", "article">>}
                  /\ Get(Get(Get(DataOf(rec), "n").items, "smith2020").items, "value")
                         = Scal("value", "1.5")

C6_Witness ==
    LoadedAuthored /\ fs[res.name].content = Scenario

-----------------------------------------------------------------------------
(* The block of each value record, found in the text dump returned: the lines  *)
(* from a reference header line to the next header line.                       *)

ValueRecordSeq(data) ==
    Join(<<>>, [i \in 1..Len(data) |-> data[i].items])

DumpedLines ==
    TextLines(res.text)

HeaderLines(names) ==
    {i \in (TopLine(DumpedLines, "data") + 1)..Len(DumpedLines) :
        \E n \in names : IsHeader(DumpedLines[i], n)}

RefHeaderLine(n) ==
    LET hs == HeaderLines(RefNames(DataOf(res.before)))
    IN CHOOSE i \in hs : Cardinality({j \in hs : j < i}) = n - 1

BlockLines(n) ==
    LET all == HeaderLines(RefNames(DataOf(res.before)) \cup ParNames(DataOf(res.before)))
        h == RefHeaderLine(n)
    IN {j \in (h + 1)..Len(DumpedLines) : \A x \in all : ~(h < x /\ x <= j)}

Opens(c) ==
    c \in {"lb", "lsq"}

Closes(c) ==
    c \in {"rb", "rsq"}

HasFlow(n) ==
    \E j \in BlockLines(n) : \E k \in 1..Len(DumpedLines[j].body) :
        Opens(DumpedLines[j].body[k].c)

HasFilledFlow(n) ==
    \E j \in BlockLines(n) : \E k \in 1..(Len(DumpedLines[j].body) - 1) :
        Opens(DumpedLines[j].body[k].c) /\ ~Closes(DumpedLines[j].body[k + 1].c)

BlocksMatchRecords ==
    Cardinality(HeaderLines(RefNames(DataOf(res.before))))
        = Len(ValueRecordSeq(DataOf(res.before)))

(* C5, as stated: in the text dump returns, the block of a value record whose  *)
(* value is a mapping holds an inline collection, and the block of one whose   *)
(* value is a scalar holds no inline notation at all, whatever its sibling     *)
(* fields are.                                                                 *)
C5_NoFlowForScalar ==
    DumpReturned =>
        /\ BlocksMatchRecords
        /\ \A n \in 1..Len(ValueRecordSeq(DataOf(res.before))) :
               LET value == Get(ValueRecordSeq(DataOf(res.before))[n].items, "value")
               IN /\ value.t = "m" => HasFlow(n)
                  /\ IsScalar(value) => ~HasFlow(n)

(* C5, amended: the block of a value record whose value is a mapping holds an  *)
(* inline collection; the block of one whose value is a scalar holds no inline *)
(* collection other than empty ones ("[]", "{}"), which the emitter writes     *)
(* inline under every style.                                                   *)
C5_FlowOnlyIfEmpty ==
    DumpReturned =>
        /\ BlocksMatchRecords
        /\ \A n \in 1..Len(ValueRecordSeq(DataOf(res.before))) :
               LET value == Get(ValueRecordSeq(DataOf(res.before))[n].items, "value")
               IN /\ value.t = "m" => HasFlow(n)
                  /\ IsScalar(value) => ~HasFilledFlow(n)

C5_Witness ==
    /\ DumpReturned
    /\ \E n \in 1..Len(ValueRecordSeq(DataOf(res.before))) :
           LET rec == ValueRecordSeq(DataOf(res.before))[n]
           IN /\ IsScalar(Get(rec.items, "value"))
              /\ \E x \in 1..Len(rec.items) : rec.items[x].t = "l" /\ Len(rec.items[x].items) > 0
              /\ ~HasFlow(n)
    /\ \E n \in 1..Len(ValueRecordSeq(DataOf(res.before))) :
           Get(ValueRecordSeq(DataOf(res.before))[n].items, "value").t = "m" /\ HasFlow(n)

-----------------------------------------------------------------------------
(* C8, as stated: after construction with a base path that does not exist,     *)
(* load fails with a filesystem or path error.                                 *)
PathErrors ==
    {"FileNotFoundError", "NotADirectoryError", "PermissionError", "OSError"}

C8_PathError ==
    (res.op = "load" /\ ~PathExists(parser.arg)) => res.status \in PathErrors

(* C8, amended: construction with a base path that does not exist succeeds,    *)
(* and every load made afterwards fails with AttributeError (base_path was     *)
(* never set) and returns no record; after construction with an existing base  *)
(* path, load of a name whose .yml file is absent fails with FileNotFoundError *)
(* and returns no record.                                                      *)
C8_DeferredFailure ==
    /\ res.op = "init" => (parser.made /\ res.status = "ok")
    /\ (res.op = "load" /\ ~PathExists(parser.arg)) =>
           (res.status = "AttributeError" /\ res.slot = 0)
    /\ (res.op = "load" /\ PathExists(parser.arg) /\ ~fs[res.name].exists) =>
           (res.status = "FileNotFoundError" /\ res.slot = 0)

C8_Witness ==
    res.op = "load" /\ parser.made /\ ~PathExists(parser.arg) /\ res.status = "AttributeError"

=============================================================================
